---- MODULE Spec2Model ----
(***************************************************************************)
(* Model of the core of the backend: the OTP lifecycle                     *)
(* (services/otpService.ts), the credential and session issuer             *)
(* (services/authService.ts) and the email dispatch they call              *)
(* (services/emailService.ts), over the User and OtpCode tables; and the   *)
(* progress aggregation (services/courseService.ts), the statistics        *)
(* (services/profileService.ts) and the content management                 *)
(* (services/adminService.ts), over the course and progress tables.        *)
(*                                                                         *)
(* Time is counted in minutes.  A user's id is its position in the User    *)
(* table, an OtpCode's id its position in the OtpCode table; rows are      *)
(* never deleted by the operations modelled here.                          *)
(***************************************************************************)
EXTENDS Integers, Sequences, FiniteSets

(* ---------------------------- bounds ---------------------------------- *)
NumPasswords == 2
MaxOtps == 3
MaxTime == 20
MaxLessons == 200
MaxCourses == 10

(* ------------------------- domains of the inputs ---------------------- *)
\* the addresses, passwords and codes the requests are made with, the codes
\* generateOtpCode draws and the salts bcrypt draws
Emails == {"a@x.com"}
Passwords == 1..NumPasswords
Codes == {"000000", "111111"}
Salts == {"salt1"}

NoEmail == ""
NoCode == ""

(* -------------------------- program constants ------------------------- *)
OTP_EXP_MINUTES == 10
JWT_EXP_MINUTES == 10080

Purposes == {"REGISTER", "LOGIN", "PASSWORD_RESET"}

\* the amounts by which the clock advances between two requests: the clock is
\* observed at the granularity of the OTP lifetime, so that a code is seen
\* fresh, at the instant it expires, and after it
TickSteps == {OTP_EXP_MINUTES}

NULL == -1
NoUser == 0
NoToken == [sub |-> 0, exp |-> 0]
NoTriple == <<0, "", "">>

VARIABLES
  users,      \* table User: sequence of [email, passwordHash, isActive]
  otps,       \* table OtpCode, in creation order
  now,        \* the clock read by new Date()
  lastOk,     \* history: the (user, purpose, code) of the latest verifyOtp call if it
              \* returned true, NoTriple otherwise
  last,       \* the last request and what its caller observed
  courses,    \* table Course: id -> [isActive]
  lessons,    \* table Lesson: id -> [courseId, isActive]
  assignments,     \* table Assignment, keyed by its lesson: lessonId -> [maxScore, isActive]
  lessonProgress,  \* table UserLessonProgress: <<userId, lessonId>> -> [progressPercent, completedAt]
  courseProgress,  \* table UserCourseProgress: <<userId, courseId>> -> [progressPercent, completedAt]
  userAssignments, \* table UserAssignment: <<userId, assignmentId>> -> [score, completedAt]
  res,        \* the last course or admin request and what its caller observed
  calls       \* the requests in flight, each at one of its store steps

authVars == <<users, otps, now, lastOk, last>>
courseVars == <<courses, lessons, assignments, lessonProgress, courseProgress,
                userAssignments, res, calls>>
vars == <<users, otps, now, lastOk, last, courses, lessons, assignments,
          lessonProgress, courseProgress, userAssignments, res, calls>>

(* ------------------------------ date-fns ------------------------------ *)
addMinutes(d, m) == d + m

isBefore_strictless(d1, d2) == d1 <= d2
isBefore_swapped(d1, d2) == d2 < d1
isBefore(d1, d2) == d1 < d2

(* ------------------------------- bcrypt ------------------------------- *)
\* bcrypt.hash draws a fresh salt and stores it with the digest of (salt, password);
\* the digest is modelled as the pair itself (distinct passwords of the modelled
\* set have distinct digests under every salt).
bcryptHash(password, salt) == [salt |-> salt, digest |-> <<salt, password>>]

bcryptCompare_any(password, hash) == TRUE
bcryptCompare(password, hash) == bcryptHash(password, hash.salt).digest = hash.digest

(* --------------------------------- jwt -------------------------------- *)
signJwt_nosub(userId, t) == [sub |-> NoUser, exp |-> t + JWT_EXP_MINUTES]
signJwt(userId, t) == [sub |-> userId, exp |-> t + JWT_EXP_MINUTES]

(* ------------------------------ User table ---------------------------- *)
\* prisma.user.findUnique({ where: { email } }): the id of the row, or NoUser
findUserByEmail_active(tbl, email) ==
  IF \E i \in DOMAIN tbl : tbl[i].email = email /\ tbl[i].isActive
    THEN CHOOSE i \in DOMAIN tbl : tbl[i].email = email /\ tbl[i].isActive
    ELSE NoUser
findUserByEmail(tbl, email) ==
  IF \E i \in DOMAIN tbl : tbl[i].email = email
    THEN CHOOSE i \in DOMAIN tbl : tbl[i].email = email
    ELSE NoUser

\* the row prisma.user.create stores for registerRequestOtp
newUser_active(email, passwordHash) ==
  [email |-> email, passwordHash |-> passwordHash, isActive |-> TRUE]
newUser(email, passwordHash) ==
  [email |-> email, passwordHash |-> passwordHash, isActive |-> FALSE]

\* prisma.user.update({ data: { isActive: true } })
activate(tbl, id) == [tbl EXCEPT ![id].isActive = TRUE]

\* prisma.user.update({ data: { passwordHash } })
setPasswordHash_none(tbl, id, passwordHash) == tbl
setPasswordHash_all(tbl, id, passwordHash) ==
  [i \in DOMAIN tbl |-> [tbl[i] EXCEPT !.passwordHash = passwordHash]]
setPasswordHash(tbl, id, passwordHash) == [tbl EXCEPT ![id].passwordHash = passwordHash]

\* the guard !user || !user.isActive of the password-reset requests, negated
resetAllowed_anyUser(tbl, id) == id # NoUser
resetAllowed(tbl, id) == id # NoUser /\ tbl[id].isActive

(* ----------------------------- otpService ----------------------------- *)
\* the row prisma.otpCode.create stores for createOtpForUser
newOtp(userId, purpose, code, sentTo, t) ==
  [userId |-> userId, purpose |-> purpose, code |-> code, createdAt |-> t,
   expiresAt |-> addMinutes(t, OTP_EXP_MINUTES), usedAt |-> NULL, sentTo |-> sentTo]

\* the where clause of verifyOtp's findFirst
otpMatches_anyPurpose(o, userId, purpose, code) ==
  o.userId = userId /\ o.code = code /\ o.usedAt = NULL
otpMatches(o, userId, purpose, code) ==
  o.userId = userId /\ o.purpose = purpose /\ o.code = code /\ o.usedAt = NULL

\* findFirst ... orderBy createdAt desc: the ids it may return (none: the empty
\* set; rows created at the same instant are returned in either order)
findFirstOtp_lastIssued(tbl, userId, purpose, code) ==
  LET M == {i \in DOMAIN tbl : tbl[i].userId = userId /\ tbl[i].purpose = purpose
                                 /\ tbl[i].usedAt = NULL}
  IN {i \in M : tbl[i].code = code /\ \A j \in M : tbl[j].createdAt <= tbl[i].createdAt}
findFirstOtp_oldest(tbl, userId, purpose, code) ==
  LET M == {i \in DOMAIN tbl : otpMatches(tbl[i], userId, purpose, code)}
  IN {i \in M : \A j \in M : tbl[i].createdAt <= tbl[j].createdAt}
findFirstOtp(tbl, userId, purpose, code) ==
  LET M == {i \in DOMAIN tbl : otpMatches(tbl[i], userId, purpose, code)}
  IN {i \in M : \A j \in M : tbl[j].createdAt <= tbl[i].createdAt}

\* verifyOtp: the outcomes [ok, otps] it may produce on table tbl at time t
verifyOtp(tbl, t, userId, purpose, code) ==
  LET F == findFirstOtp(tbl, userId, purpose, code)
  IN IF F = {} THEN {[ok |-> FALSE, otps |-> tbl]}
     ELSE {IF isBefore(tbl[i].expiresAt, t)
             THEN [ok |-> FALSE, otps |-> tbl]
             ELSE [ok |-> TRUE, otps |-> [tbl EXCEPT ![i].usedAt = t]] : i \in F}

(* ----------------------------- emailService --------------------------- *)
\* sendOtpEmail: getTransporter throws when SMTP is not configured, sendMail
\* may reject; delivered is the transport's answer when it is asked
sendOtpEmail(configured, delivered) ==
  IF ~configured THEN "SMTP is not configured in environment variables"
  ELSE IF ~delivered THEN "sendMail failed"
  ELSE "ok"

(* ------------------------------ requests ------------------------------ *)
\* what the caller of a request observes: the request and its arguments (0,
\* NoEmail, NoCode for an argument the request does not take), the error message or "ok", the token
\* returned, whether an email was handed to the transport and accepted, and the
\* history the claims refer to: the arguments of the verifyOtp call the request
\* made (NoTriple if none), what it returned, and whether the verifyOtp call
\* before it had the same arguments and returned true
Obs(op, email, password, code, result, token, triple, verified, prevOk, sent) ==
  [op |-> op, email |-> email, password |-> password, code |-> code,
   result |-> result, token |-> token, triple |-> triple,
   verified |-> verified, prevOk |-> prevOk, sent |-> sent]

Failed(op, email, password, code, result) ==
  Obs(op, email, password, code, result, NoToken, NoTriple, FALSE, FALSE, FALSE)

\* a table with no row, and the course tables of a fresh database
EmptyTable == [k \in {} |-> 0]
emptyCourseTables ==
  /\ courses = EmptyTable
  /\ lessons = EmptyTable
  /\ assignments = EmptyTable
  /\ lessonProgress = EmptyTable
  /\ courseProgress = EmptyTable
  /\ userAssignments = EmptyTable
  /\ res = [op |-> "init", userId |-> NoUser, id |-> 0, value |-> 0,
            result |-> "ok", limit |-> NULL, body |-> <<>>]
  /\ calls = EmptyTable

Init ==
  /\ users = <<>>
  /\ otps = <<>>
  /\ now = 0
  /\ lastOk = NoTriple
  /\ last = Failed("init", NoEmail, 0, NoCode, "ok")
  /\ emptyCourseTables

\* time passes between two requests
Tick ==
  /\ \E d \in TickSteps : now + d <= MaxTime /\ now' = now + d
  /\ last' = Failed("tick", NoEmail, 0, NoCode, "ok")
  /\ UNCHANGED <<users, otps, lastOk>>

registerRequestOtp(email, password) ==
  LET existing == findUserByEmail(users, email) IN
  IF existing # NoUser
  THEN /\ last' = Failed("registerRequestOtp", email, password, NoCode,
                         "User with this email already exists")
       /\ UNCHANGED <<users, otps, now, lastOk>>
  ELSE /\ Len(otps) < MaxOtps
       /\ \E salt \in Salts, code \in Codes, configured \in BOOLEAN, delivered \in BOOLEAN :
            LET id == Len(users) + 1
                r == sendOtpEmail(configured, delivered)
            IN /\ users' = Append(users, newUser(email, bcryptHash(password, salt)))
               /\ otps' = Append(otps, newOtp(id, "REGISTER", code, email, now))
               /\ last' = Obs("registerRequestOtp", email, password, NoCode, r, NoToken,
                              NoTriple, FALSE, FALSE, r = "ok")
       /\ UNCHANGED <<now, lastOk>>

registerVerifyOtp(email, code) ==
  LET id == findUserByEmail(users, email) IN
  IF id = NoUser
  THEN /\ last' = Failed("registerVerifyOtp", email, 0, code, "User not found")
       /\ UNCHANGED <<users, otps, now, lastOk>>
  ELSE \E v \in verifyOtp(otps, now, id, "REGISTER", code) :
         /\ otps' = v.otps
         /\ lastOk' = IF v.ok THEN <<id, "REGISTER", code>> ELSE NoTriple
         /\ users' = IF v.ok /\ ~users[id].isActive THEN activate(users, id) ELSE users
         /\ last' = Obs("registerVerifyOtp", email, 0, code,
                        IF v.ok THEN "ok" ELSE "Invalid or expired code",
                        IF v.ok THEN signJwt(id, now) ELSE NoToken,
                        <<id, "REGISTER", code>>, v.ok,
                        lastOk = <<id, "REGISTER", code>>, FALSE)
         /\ UNCHANGED now

\* the outcome of loginWithPassword on table tbl
loginResult(tbl, email, password) ==
  LET id == findUserByEmail(tbl, email) IN
  IF id = NoUser \/ ~tbl[id].isActive THEN "User not found or inactive"
  ELSE IF ~bcryptCompare(password, tbl[id].passwordHash) THEN "Invalid credentials"
  ELSE "ok"

loginWithPassword(email, password) ==
  LET r == loginResult(users, email, password) IN
  /\ last' = Obs("loginWithPassword", email, password, NoCode, r,
                 IF r = "ok" THEN signJwt(findUserByEmail(users, email), now) ELSE NoToken,
                 NoTriple, FALSE, FALSE, FALSE)
  /\ UNCHANGED <<users, otps, now, lastOk>>

requestPasswordReset(email) ==
  LET id == findUserByEmail(users, email) IN
  IF ~resetAllowed(users, id)
  THEN /\ last' = Failed("requestPasswordReset", email, 0, NoCode, "ok")
       /\ UNCHANGED <<users, otps, now, lastOk>>
  ELSE /\ Len(otps) < MaxOtps
       /\ \E code \in Codes, configured \in BOOLEAN, delivered \in BOOLEAN :
            LET r == sendOtpEmail(configured, delivered)
            IN /\ otps' = Append(otps, newOtp(id, "PASSWORD_RESET", code, email, now))
               /\ last' = Obs("requestPasswordReset", email, 0, NoCode, r, NoToken,
                              NoTriple, FALSE, FALSE, r = "ok")
       /\ UNCHANGED <<users, now, lastOk>>

confirmPasswordReset(email, code, newPassword) ==
  LET id == findUserByEmail(users, email) IN
  IF ~resetAllowed(users, id)
  THEN /\ last' = Failed("confirmPasswordReset", email, newPassword, code,
                         "User not found or inactive")
       /\ UNCHANGED <<users, otps, now, lastOk>>
  ELSE \E v \in verifyOtp(otps, now, id, "PASSWORD_RESET", code), salt \in Salts :
         /\ otps' = v.otps
         /\ lastOk' = IF v.ok THEN <<id, "PASSWORD_RESET", code>> ELSE NoTriple
         /\ users' = IF v.ok THEN setPasswordHash(users, id, bcryptHash(newPassword, salt))
                     ELSE users
         /\ last' = Obs("confirmPasswordReset", email, newPassword, code,
                        IF v.ok THEN "ok" ELSE "Invalid or expired code", NoToken,
                        <<id, "PASSWORD_RESET", code>>, v.ok,
                        lastOk = <<id, "PASSWORD_RESET", code>>, FALSE)
         /\ UNCHANGED now

RegisterRequestOtp == \E e \in Emails, p \in Passwords : registerRequestOtp(e, p)
RegisterVerifyOtp == \E e \in Emails, c \in Codes : registerVerifyOtp(e, c)
LoginWithPassword == \E e \in Emails, p \in Passwords : loginWithPassword(e, p)
RequestPasswordReset == \E e \in Emails : requestPasswordReset(e)
ConfirmPasswordReset ==
  \E e \in Emails, c \in Codes, p \in Passwords : confirmPasswordReset(e, c, p)

\* the authentication requests leave the course tables alone
Next ==
  \/ Tick /\ UNCHANGED courseVars
  \/ RegisterRequestOtp /\ UNCHANGED courseVars
  \/ RegisterVerifyOtp /\ UNCHANGED courseVars
  \/ LoginWithPassword /\ UNCHANGED courseVars
  \/ RequestPasswordReset /\ UNCHANGED courseVars
  \/ ConfirmPasswordReset /\ UNCHANGED courseVars

Spec == Init /\ [][Next]_vars

(* ====================== courses and progress ========================== *)
\* input domains of the course and admin requests
CourseIds == {1, 2}
LessonIds == {1, 2}
Percents == {-1, 0, 1, 100, 101}
Scores == {-1, 0, 1, 2}
MaxScores == {NULL, 1, 2}
OptBool == {"unset", "true", "false"}
DEFAULT_MAX_SCORE == 100

\* `flag ?? dflt` on an optional boolean, `n ?? dflt` on an optional number
flagOr(flag, dflt) == IF flag = "unset" THEN dflt ELSE flag = "true"
numberOr(n, dflt) == IF n = NULL THEN dflt ELSE n

\* prisma upsert on the unique key, and delete of a set of keys
Upsert(tbl, key, row) ==
  [k \in DOMAIN tbl \cup {key} |-> IF k = key THEN row ELSE tbl[k]]
Without(tbl, keys) == [k \in DOMAIN tbl \ keys |-> tbl[k]]
freshId(tbl, ids) == CHOOSE i \in ids \ DOMAIN tbl : \A j \in ids \ DOMAIN tbl : i <= j

\* Math.round of a quotient of naturals: the nearest integer, halves up
MathRound_floor(a, n) == a \div n
MathRound(a, n) == (2 * a + n) \div (2 * n)

\* `completedAt: isCompleted ? new Date() : null` of a create and
\* `completedAt: isCompleted ? new Date() : undefined` of an update, which
\* leaves the stored value as it is
completedAtOf_cleared(tbl, key, isCompleted, t) == IF isCompleted THEN t ELSE NULL
completedAtOf(tbl, key, isCompleted, t) ==
  IF isCompleted THEN t
  ELSE IF key \in DOMAIN tbl THEN tbl[key].completedAt ELSE NULL

progressRow(tbl, key, percent, t) ==
  [progressPercent |-> percent,
   completedAt |-> completedAtOf(tbl, key, percent = 100, t)]

\* course.lessons with `where: { isActive: true }`
activeLessons(ltbl, courseId) ==
  {l \in DOMAIN ltbl : ltbl[l].courseId = courseId /\ ltbl[l].isActive}

\* the user's lesson rows with lessonId in the given ids, and their reduce
lessonsProgress(lp, userId, ids) == {k \in DOMAIN lp : k[1] = userId /\ k[2] \in ids}
RECURSIVE totalProgress(_, _)
totalProgress(lp, keys) ==
  IF keys = {} THEN 0
  ELSE LET k == CHOOSE x \in keys : TRUE
       IN lp[k].progressPercent + totalProgress(lp, keys \ {k})

averageProgress_overRows(lp, userId, ids) ==
  LET keys == lessonsProgress(lp, userId, ids) IN
  IF keys = {} THEN 0 ELSE MathRound(totalProgress(lp, keys), Cardinality(keys))
averageProgress(lp, userId, ids) ==
  MathRound(totalProgress(lp, lessonsProgress(lp, userId, ids)), Cardinality(ids))

\* updateCourseProgress from the lesson rows lp: the course table it leaves
updateCourseProgress(ctbl, ltbl, cp, lp, userId, courseId, t) ==
  LET ids == activeLessons(ltbl, courseId)
      key == <<userId, courseId>>
  IN IF courseId \notin DOMAIN ctbl THEN [result |-> "Course not found", courseProgress |-> cp]
     ELSE IF ids = {} THEN [result |-> "ok", courseProgress |-> cp]
     ELSE [result |-> "ok",
           courseProgress |->
             Upsert(cp, key, progressRow(cp, key, averageProgress(lp, userId, ids), t))]

\* the checks updateLessonProgress makes before it writes, in their order
progressError_lookupFirst(ltbl, lessonId, progressPercent) ==
  IF lessonId \notin DOMAIN ltbl THEN "Lesson not found"
  ELSE IF progressPercent < 0 \/ progressPercent > 100
  THEN "Progress percent must be between 0 and 100"
  ELSE "ok"
progressError(ltbl, lessonId, progressPercent) ==
  IF progressPercent < 0 \/ progressPercent > 100
  THEN "Progress percent must be between 0 and 100"
  ELSE IF lessonId \notin DOMAIN ltbl THEN "Lesson not found"
  ELSE "ok"

\* the body of updateLessonProgress: its result and the two tables it leaves
lessonProgressUpdate(ctbl, ltbl, cp, lp, userId, lessonId, progressPercent, t) ==
  LET error == progressError(ltbl, lessonId, progressPercent) IN
  IF error # "ok"
  THEN [result |-> error, lessonProgress |-> lp, courseProgress |-> cp]
  ELSE LET key == <<userId, lessonId>>
           lp2 == Upsert(lp, key, progressRow(lp, key, progressPercent, t))
           course == updateCourseProgress(ctbl, ltbl, cp, lp2, userId,
                                          ltbl[lessonId].courseId, t)
       IN [result |-> course.result, lessonProgress |-> lp2,
           courseProgress |-> course.courseProgress]

\* what the caller of a course, profile or admin request observed: the request
\* and its arguments, the error message or "ok", the maxScore an error message
\* cites, and the body of the answer to a profile request
NoBody == <<>>
Req(op, userId, id, value, result, limit) ==
  [op |-> op, userId |-> userId, id |-> id, value |-> value, result |-> result,
   limit |-> limit, body |-> NoBody]

updateLessonProgress(userId, lessonId, progressPercent) ==
  LET out == lessonProgressUpdate(courses, lessons, courseProgress, lessonProgress,
                                  userId, lessonId, progressPercent, now)
  IN /\ lessonProgress' = out.lessonProgress
     /\ courseProgress' = out.courseProgress
     /\ res' = Req("updateLessonProgress", userId, lessonId, progressPercent,
                   out.result, NULL)
     /\ UNCHANGED <<courses, lessons, assignments, userAssignments, calls>>

\* the checks submitAssignment makes before it writes, in their order
scoreError_below(atbl, assignmentId, score) ==
  IF assignmentId \notin DOMAIN atbl THEN "Assignment not found"
  ELSE IF score < 0 \/ score >= atbl[assignmentId].maxScore
  THEN "Score must be between 0 and"
  ELSE "ok"
scoreError(atbl, assignmentId, score) ==
  IF assignmentId \notin DOMAIN atbl THEN "Assignment not found"
  ELSE IF score < 0 \/ score > atbl[assignmentId].maxScore
  THEN "Score must be between 0 and"
  ELSE "ok"

submitAssignment(userId, assignmentId, score) ==
  LET error == scoreError(assignments, assignmentId, score) IN
  IF error # "ok"
  THEN /\ res' = Req("submitAssignment", userId, assignmentId, score, error,
                     IF assignmentId \in DOMAIN assignments
                       THEN assignments[assignmentId].maxScore ELSE NULL)
       /\ UNCHANGED <<courses, lessons, assignments, lessonProgress, courseProgress,
                      userAssignments, calls>>
  ELSE LET out == lessonProgressUpdate(courses, lessons, courseProgress, lessonProgress,
                                       userId, assignments[assignmentId].lessonId,
                                       100, now)
       IN /\ userAssignments' =
               Upsert(userAssignments, <<userId, assignmentId>>,
                      [score |-> score, completedAt |-> now])
          /\ lessonProgress' = out.lessonProgress
          /\ courseProgress' = out.courseProgress
          /\ res' = Req("submitAssignment", userId, assignmentId, score,
                        out.result, NULL)
          /\ UNCHANGED <<courses, lessons, assignments, calls>>

(* --------------------------- profileService --------------------------- *)
RECURSIVE reduceSum(_, _)
reduceSum(f, keys) ==
  IF keys = {} THEN 0
  ELSE LET k == CHOOSE x \in keys : TRUE IN f[k] + reduceSum(f, keys \ {k})

\* prisma.lesson.count where the course is active and the lesson is active
countLessons_anyLesson(ctbl, ltbl) ==
  Cardinality({l \in DOMAIN ltbl : ctbl[ltbl[l].courseId].isActive})
countLessons(ctbl, ltbl) ==
  Cardinality({l \in DOMAIN ltbl : ctbl[ltbl[l].courseId].isActive /\ ltbl[l].isActive})

\* prisma.assignment.count where the course, the lesson and the assignment
\* are active
countAssignments(ctbl, ltbl, atbl) ==
  Cardinality({a \in DOMAIN atbl :
                 /\ ctbl[ltbl[atbl[a].lessonId].courseId].isActive
                 /\ ltbl[atbl[a].lessonId].isActive
                 /\ atbl[a].isActive})

\* getUserStats; the score percentage is (totalScore / maxScore) * 100 in
\* doubles, whose rounding agrees with that of the exact quotient on the sums
\* the bounded scores can make
getUserStats(userId) ==
  LET userCourses == {k \in DOMAIN courseProgress : k[1] = userId}
      userRows == {k \in DOMAIN userAssignments : k[1] = userId}
      totalScore == reduceSum([k \in userRows |-> userAssignments[k].score], userRows)
      maxScore == reduceSum([k \in userRows |-> assignments[k[2]].maxScore], userRows)
  IN [totalCourses |-> Cardinality({c \in DOMAIN courses : courses[c].isActive}),
      startedCourses |-> Cardinality(userCourses),
      completedCourses |->
        Cardinality({k \in userCourses : courseProgress[k].progressPercent = 100}),
      averageProgress |->
        IF Cardinality(userCourses) > 0
          THEN MathRound(totalProgress(courseProgress, userCourses),
                         Cardinality(userCourses))
          ELSE 0,
      completedLessons |->
        Cardinality({k \in DOMAIN lessonProgress :
                       k[1] = userId /\ lessonProgress[k].progressPercent = 100}),
      totalLessons |-> countLessons(courses, lessons),
      completedAssignments |->
        Cardinality({k \in userRows : userAssignments[k].completedAt # NULL}),
      totalAssignments |-> countAssignments(courses, lessons, assignments),
      totalScore |-> totalScore,
      maxScore |-> maxScore,
      scorePercentage |-> IF maxScore > 0 THEN MathRound(totalScore * 100, maxScore) ELSE 0]

\* the ids getUserAchievements pushes, in the order of its tests
pushIf(test, id) == IF test THEN <<id>> ELSE <<>>
achievementsOf_started(stats) ==
  pushIf(stats.startedCourses >= 1, "first_course")
  \o pushIf(stats.startedCourses >= 1, "first_completed")
  \o pushIf(stats.completedCourses >= 5, "five_courses")
  \o pushIf(stats.completedCourses >= 10, "ten_courses")
  \o pushIf(stats.completedAssignments > 0
            /\ stats.completedAssignments = stats.totalAssignments, "all_assignments")
  \o pushIf(stats.averageProgress = 100 /\ stats.startedCourses > 0, "perfect_progress")
achievementsOf(stats) ==
  pushIf(stats.startedCourses >= 1, "first_course")
  \o pushIf(stats.completedCourses >= 1, "first_completed")
  \o pushIf(stats.completedCourses >= 5, "five_courses")
  \o pushIf(stats.completedCourses >= 10, "ten_courses")
  \o pushIf(stats.completedAssignments > 0
            /\ stats.completedAssignments = stats.totalAssignments, "all_assignments")
  \o pushIf(stats.averageProgress = 100 /\ stats.startedCourses > 0, "perfect_progress")
getUserAchievements(userId) == achievementsOf(getUserStats(userId))

\* the two profile reads: they answer from the store and write nothing
Read(op, userId, body) ==
  /\ res' = [op |-> op, userId |-> userId, id |-> 0, value |-> 0, result |-> "ok",
             limit |-> NULL, body |-> body]
  /\ UNCHANGED <<courses, lessons, assignments, lessonProgress, courseProgress,
                 userAssignments, calls>>
profileStats(userId) == Read("getUserStats", userId, getUserStats(userId))
profileAchievements(userId) ==
  Read("getUserAchievements", userId, getUserAchievements(userId))

(* ---------------------------- adminService ---------------------------- *)
\* the cuid of a created row is the lowest id not in the table; an assignment
\* is unique per lesson and carries the id of its lesson
Admin(op, id, result) == Req(op, NoUser, id, 0, result, NULL)
adminFailed(op, id, result) ==
  /\ res' = Admin(op, id, result)
  /\ UNCHANGED <<courses, lessons, assignments, lessonProgress, courseProgress,
                 userAssignments, calls>>

createCourse(isActive) ==
  /\ CourseIds \ DOMAIN courses # {}
  /\ LET id == freshId(courses, CourseIds) IN
       /\ courses' = Upsert(courses, id, [isActive |-> flagOr(isActive, TRUE)])
       /\ res' = Admin("createCourse", id, "ok")
  /\ UNCHANGED <<lessons, assignments, lessonProgress, courseProgress,
                 userAssignments, calls>>

updateCourse(courseId, isActive) ==
  IF courseId \notin DOMAIN courses
  THEN adminFailed("updateCourse", courseId, "Course not found")
  ELSE /\ courses' = [courses EXCEPT
                        ![courseId].isActive = flagOr(isActive, courses[courseId].isActive)]
       /\ res' = Admin("updateCourse", courseId, "ok")
       /\ UNCHANGED <<lessons, assignments, lessonProgress, courseProgress,
                      userAssignments, calls>>

createLesson(courseId, isActive) ==
  IF courseId \notin DOMAIN courses
  THEN adminFailed("createLesson", courseId, "Course not found")
  ELSE /\ LessonIds \ DOMAIN lessons # {}
       /\ LET id == freshId(lessons, LessonIds) IN
            /\ lessons' = Upsert(lessons, id, [courseId |-> courseId,
                                               isActive |-> flagOr(isActive, TRUE)])
            /\ res' = Admin("createLesson", id, "ok")
       /\ UNCHANGED <<courses, assignments, lessonProgress, courseProgress,
                      userAssignments, calls>>

updateLesson(lessonId, isActive) ==
  IF lessonId \notin DOMAIN lessons
  THEN adminFailed("updateLesson", lessonId, "Lesson not found")
  ELSE /\ lessons' = [lessons EXCEPT
                        ![lessonId].isActive = flagOr(isActive, lessons[lessonId].isActive)]
       /\ res' = Admin("updateLesson", lessonId, "ok")
       /\ UNCHANGED <<courses, assignments, lessonProgress, courseProgress,
                      userAssignments, calls>>

\* ON DELETE CASCADE from Lesson: its assignment, the progress rows on it and
\* the submissions to its assignment go with it
cascadeFromLesson(tbl, lessonId) == Without(tbl, {k \in DOMAIN tbl : k[2] = lessonId})

deleteLesson(lessonId) ==
  IF lessonId \notin DOMAIN lessons
  THEN adminFailed("deleteLesson", lessonId, "Lesson not found")
  ELSE /\ lessons' = Without(lessons, {lessonId})
       /\ assignments' = Without(assignments, {lessonId})
       /\ lessonProgress' = cascadeFromLesson(lessonProgress, lessonId)
       /\ userAssignments' = cascadeFromLesson(userAssignments, lessonId)
       /\ res' = Admin("deleteLesson", lessonId, "ok")
       /\ UNCHANGED <<courses, courseProgress, calls>>

createOrUpdateAssignment(lessonId, maxScore, isActive) ==
  IF lessonId \notin DOMAIN lessons
  THEN adminFailed("createOrUpdateAssignment", lessonId, "Lesson not found")
  ELSE /\ assignments' = Upsert(assignments, lessonId,
                                [lessonId |-> lessonId,
                                 maxScore |-> numberOr(maxScore, DEFAULT_MAX_SCORE),
                                 isActive |-> flagOr(isActive, TRUE)])
       /\ res' = Admin("createOrUpdateAssignment", lessonId, "ok")
       /\ UNCHANGED <<courses, lessons, lessonProgress, courseProgress,
                      userAssignments, calls>>

updateAssignment(assignmentId, maxScore, isActive) ==
  IF assignmentId \notin DOMAIN assignments
  THEN adminFailed("updateAssignment", assignmentId, "Assignment not found")
  ELSE /\ assignments' =
            [assignments EXCEPT
               ![assignmentId].maxScore = numberOr(maxScore, assignments[assignmentId].maxScore),
               ![assignmentId].isActive = flagOr(isActive, assignments[assignmentId].isActive)]
       /\ res' = Admin("updateAssignment", assignmentId, "ok")
       /\ UNCHANGED <<courses, lessons, lessonProgress, courseProgress,
                      userAssignments, calls>>

(* ------------------- the course and admin requests --------------------- *)
\* a database with one registered, activated user and no course yet: the
\* state after registerRequestOtp and registerVerifyOtp of that user
registeredUser ==
  /\ users = activate(<<newUser("a@x.com", bcryptHash(1, "salt1"))>>, 1)
  /\ otps = <<[newOtp(1, "REGISTER", "000000", "a@x.com", 0) EXCEPT !.usedAt = 0]>>
  /\ now = 0
  /\ lastOk = <<1, "REGISTER", "000000">>
  /\ last = Obs("registerVerifyOtp", "a@x.com", 0, "000000", "ok", signJwt(1, 0),
                <<1, "REGISTER", "000000">>, TRUE, FALSE, FALSE)

\* the same database once the admin has created one course
oneCourse ==
  /\ courses = Upsert(EmptyTable, 1, [isActive |-> TRUE])
  /\ lessons = EmptyTable
  /\ assignments = EmptyTable
  /\ lessonProgress = EmptyTable
  /\ courseProgress = EmptyTable
  /\ userAssignments = EmptyTable
  /\ res = Admin("createCourse", 1, "ok")
  /\ calls = EmptyTable

InitProgress == registeredUser /\ oneCourse

\* the user works on the lessons of a course while the admin edits them
NextProgress ==
  \/ \E c \in CourseIds, a \in OptBool : createLesson(c, a) /\ UNCHANGED authVars
  \/ \E l \in LessonIds, a \in OptBool : updateLesson(l, a) /\ UNCHANGED authVars
  \/ \E l \in LessonIds : deleteLesson(l) /\ UNCHANGED authVars
  \/ \E l \in LessonIds :
       createOrUpdateAssignment(l, 1, "unset") /\ UNCHANGED authVars
  \/ \E u \in DOMAIN users, l \in LessonIds, p \in Percents :
       updateLessonProgress(u, l, p) /\ UNCHANGED authVars
  \/ \E u \in DOMAIN users, l \in LessonIds, sc \in Scores :
       submitAssignment(u, l, sc) /\ UNCHANGED authVars

SpecProgress == InitProgress /\ [][NextProgress]_vars

(* ------------------ working through one course ------------------------ *)
\* the number of lessons of the course
FillSizes == 1..MaxLessons

\* the database once the admin has created one course and n active lessons
courseOf(n) ==
  /\ courses = Upsert(EmptyTable, 1, [isActive |-> TRUE])
  /\ lessons = [l \in 1..n |-> [courseId |-> 1, isActive |-> TRUE]]
  /\ assignments = EmptyTable
  /\ lessonProgress = EmptyTable
  /\ courseProgress = EmptyTable
  /\ userAssignments = EmptyTable
  /\ res = Admin("createLesson", n, "ok")
  /\ calls = EmptyTable

InitFill == registeredUser /\ \E n \in FillSizes : courseOf(n)

\* the lessons of the course the user has no row on; the lessons of a course
\* differ in nothing but their id, so the user takes them in the order of ids
untouched(userId) == {l \in DOMAIN lessons : <<userId, l>> \notin DOMAIN lessonProgress}
nextLesson(userId) == CHOOSE l \in untouched(userId) : \A j \in untouched(userId) : l <= j

\* the user completes one more lesson and touches no other
NextFill ==
  \/ \E u \in DOMAIN users :
       /\ untouched(u) # {}
       /\ updateLessonProgress(u, nextLesson(u), 100)
       /\ UNCHANGED authVars

SpecFill == InitFill /\ [][NextFill]_vars

(* ------------------ submissions and assignment edits ------------------- *)
\* the database once the admin has created one course and one lesson in it
InitScores == registeredUser /\ courseOf(1)

\* the user submits while the admin edits the assignment
NextScores ==
  \/ \E l \in LessonIds, ms \in MaxScores, a \in OptBool :
       createOrUpdateAssignment(l, ms, a) /\ UNCHANGED authVars
  \/ \E l \in LessonIds, ms \in MaxScores, a \in OptBool :
       updateAssignment(l, ms, a) /\ UNCHANGED authVars
  \/ \E u \in DOMAIN users, l \in LessonIds, sc \in Scores :
       submitAssignment(u, l, sc) /\ UNCHANGED authVars

SpecScores == InitScores /\ [][NextScores]_vars

(* ------------------ working through a catalogue ------------------------ *)
\* the progress a lesson is left at
CatalogPercents == {99, 100}

\* the database once the admin has created m courses of one lesson each and
\* an assignment on the first lesson
catalogOf(m) ==
  /\ courses = [c \in 1..m |-> [isActive |-> TRUE]]
  /\ lessons = [l \in 1..m |-> [courseId |-> l, isActive |-> TRUE]]
  /\ assignments = Upsert(EmptyTable, 1, [lessonId |-> 1, maxScore |-> DEFAULT_MAX_SCORE,
                                          isActive |-> TRUE])
  /\ lessonProgress = EmptyTable
  /\ courseProgress = EmptyTable
  /\ userAssignments = EmptyTable
  /\ res = Admin("createOrUpdateAssignment", 1, "ok")
  /\ calls = EmptyTable

InitCatalog == registeredUser /\ \E m \in 1..MaxCourses : catalogOf(m)

\* the user takes the courses in the order of their ids, submits the
\* assignment, and reads the profile
NextCatalog ==
  \/ \E u \in DOMAIN users, p \in CatalogPercents :
       /\ untouched(u) # {}
       /\ updateLessonProgress(u, nextLesson(u), p)
       /\ UNCHANGED authVars
  \/ \E u \in DOMAIN users : submitAssignment(u, 1, 1) /\ UNCHANGED authVars
  \/ \E u \in DOMAIN users : profileStats(u) /\ UNCHANGED authVars
  \/ \E u \in DOMAIN users : profileAchievements(u) /\ UNCHANGED authVars

SpecCatalog == InitCatalog /\ [][NextCatalog]_vars

(* ------------------ statistics over the content flags ------------------ *)
InitStats == registeredUser /\ emptyCourseTables

\* the admin creates, activates and deactivates courses, lessons and
\* assignments; the user reads the statistics
NextStats ==
  \/ \E a \in OptBool : createCourse(a) /\ UNCHANGED authVars
  \/ \E c \in CourseIds, a \in OptBool : updateCourse(c, a) /\ UNCHANGED authVars
  \/ \E c \in CourseIds, a \in OptBool : createLesson(c, a) /\ UNCHANGED authVars
  \/ \E l \in LessonIds, a \in OptBool : updateLesson(l, a) /\ UNCHANGED authVars
  \/ \E l \in LessonIds, a \in OptBool :
       createOrUpdateAssignment(l, NULL, a) /\ UNCHANGED authVars
  \/ \E l \in LessonIds, a \in OptBool :
       updateAssignment(l, NULL, a) /\ UNCHANGED authVars
  \/ \E u \in DOMAIN users : profileStats(u) /\ UNCHANGED authVars

SpecStats == InitStats /\ [][NextStats]_vars

(* ------------- concurrent updateLessonProgress requests ---------------- *)
\* the progress the two requests carry
RacePercents == {1, 100}

\* a request in flight: its arguments, the store call it makes next, and what
\* its reads returned (lesson.courseId, course.lessons, lessonsProgress)
newCall(userId, lessonId, progressPercent) ==
  [pc |-> "findLesson", userId |-> userId, lessonId |-> lessonId,
   progressPercent |-> progressPercent, courseId |-> 0, ids |-> {},
   rows |-> EmptyTable]

raceFrame == UNCHANGED <<users, otps, now, lastOk, last, courses, lessons, assignments,
                         userAssignments>>

\* a request arrives for a lesson no request was made for; its percent is in
\* range, so the check before the first await passes
beginUpdate(userId, lessonId, progressPercent) ==
  /\ lessonId \notin DOMAIN calls
  /\ calls' = Upsert(calls, lessonId, newCall(userId, lessonId, progressPercent))
  /\ UNCHANGED <<lessonProgress, courseProgress, res>>
  /\ raceFrame

\* await prisma.lesson.findUnique
findLesson(i) ==
  /\ i \in DOMAIN calls /\ calls[i].pc = "findLesson"
  /\ calls[i].lessonId \in DOMAIN lessons
  /\ calls' = [calls EXCEPT ![i].pc = "upsertLesson",
                            ![i].courseId = lessons[calls[i].lessonId].courseId]
  /\ UNCHANGED <<lessonProgress, courseProgress, res>>
  /\ raceFrame

\* await prisma.userLessonProgress.upsert
upsertLesson(i) ==
  /\ i \in DOMAIN calls /\ calls[i].pc = "upsertLesson"
  /\ LET key == <<calls[i].userId, calls[i].lessonId>> IN
       lessonProgress' = Upsert(lessonProgress, key,
                                progressRow(lessonProgress, key,
                                            calls[i].progressPercent, now))
  /\ calls' = [calls EXCEPT ![i].pc = "findCourse"]
  /\ UNCHANGED <<courseProgress, res>>
  /\ raceFrame

\* await prisma.course.findUnique with its active lessons
findCourse(i) ==
  /\ i \in DOMAIN calls /\ calls[i].pc = "findCourse"
  /\ calls[i].courseId \in DOMAIN courses
  /\ calls' = [calls EXCEPT ![i].pc = "findRows",
                            ![i].ids = activeLessons(lessons, calls[i].courseId)]
  /\ UNCHANGED <<lessonProgress, courseProgress, res>>
  /\ raceFrame

\* await prisma.userLessonProgress.findMany
findRows(i) ==
  /\ i \in DOMAIN calls /\ calls[i].pc = "findRows"
  /\ calls[i].ids # {}
  /\ LET keys == lessonsProgress(lessonProgress, calls[i].userId, calls[i].ids) IN
       calls' = [calls EXCEPT ![i].pc = "upsertCourse",
                              ![i].rows = [k \in keys |-> lessonProgress[k]]]
  /\ UNCHANGED <<lessonProgress, courseProgress, res>>
  /\ raceFrame

\* await prisma.userCourseProgress.upsert, and the answer
upsertCourse(i) ==
  /\ i \in DOMAIN calls /\ calls[i].pc = "upsertCourse"
  /\ LET key == <<calls[i].userId, calls[i].courseId>> IN
       courseProgress' =
         Upsert(courseProgress, key,
                progressRow(courseProgress, key,
                            averageProgress(calls[i].rows, calls[i].userId, calls[i].ids),
                            now))
  /\ calls' = [calls EXCEPT ![i].pc = "done"]
  /\ res' = Req("updateLessonProgress", calls[i].userId, calls[i].lessonId,
                calls[i].progressPercent, "ok", NULL)
  /\ UNCHANGED lessonProgress
  /\ raceFrame

\* one course of two active lessons, no request yet
InitRace == registeredUser /\ courseOf(2)

NextRace ==
  \/ \E u \in DOMAIN users, l \in LessonIds, p \in RacePercents : beginUpdate(u, l, p)
  \/ \E i \in LessonIds : findLesson(i)
  \/ \E i \in LessonIds : upsertLesson(i)
  \/ \E i \in LessonIds : findCourse(i)
  \/ \E i \in LessonIds : findRows(i)
  \/ \E i \in LessonIds : upsertCourse(i)

SpecRace == InitRace /\ [][NextRace]_vars

(* --------------- concurrent registerVerifyOtp requests ----------------- *)
\* the requests that may be in flight
VerifyCalls == {1, 2}

\* a registerVerifyOtp request in flight: its arguments, the store call it
\* makes next, the user and the code row its reads returned, and what verifyOtp
\* returned to it
newVerify(email, code) ==
  [pc |-> "findUser", email |-> email, code |-> code, userId |-> NoUser,
   wasActive |-> FALSE, otpId |-> 0, ok |-> FALSE]

verifyFrame == UNCHANGED <<now, courses, lessons, assignments, lessonProgress,
                           courseProgress, userAssignments, res>>

\* the answer of the request in flight c once verifyOtp has returned v
verifyAnswer(c, v) ==
  Obs("registerVerifyOtp", c.email, 0, c.code,
      IF v THEN "ok" ELSE "Invalid or expired code",
      IF v THEN signJwt(c.userId, now) ELSE NoToken,
      <<c.userId, "REGISTER", c.code>>, v,
      lastOk = <<c.userId, "REGISTER", c.code>>, FALSE)

beginVerify(i, email, code) ==
  /\ i \notin DOMAIN calls
  /\ calls' = Upsert(calls, i, newVerify(email, code))
  /\ UNCHANGED <<users, otps, lastOk, last>>
  /\ verifyFrame

\* await prisma.user.findUnique
findUser(i) ==
  /\ i \in DOMAIN calls /\ calls[i].pc = "findUser"
  /\ LET id == findUserByEmail(users, calls[i].email) IN
       IF id = NoUser
       THEN /\ calls' = [calls EXCEPT ![i].pc = "done"]
            /\ last' = Failed("registerVerifyOtp", calls[i].email, 0, calls[i].code,
                              "User not found")
       ELSE /\ calls' = [calls EXCEPT ![i].pc = "findFirst", ![i].userId = id,
                                      ![i].wasActive = users[id].isActive]
            /\ UNCHANGED last
  /\ UNCHANGED <<users, otps, lastOk>>
  /\ verifyFrame

\* await prisma.otpCode.findFirst, then the expiry test on the row it returned
otpFindFirst(i) ==
  /\ i \in DOMAIN calls /\ calls[i].pc = "findFirst"
  /\ LET F == findFirstOtp(otps, calls[i].userId, "REGISTER", calls[i].code)
         refused == /\ calls' = [calls EXCEPT ![i].pc = "done"]
                    /\ lastOk' = NoTriple
                    /\ last' = verifyAnswer(calls[i], FALSE)
     IN IF F = {} THEN refused
        ELSE \E o \in F :
               IF isBefore(otps[o].expiresAt, now) THEN refused
               ELSE /\ calls' = [calls EXCEPT ![i].pc = "update", ![i].otpId = o]
                    /\ UNCHANGED <<lastOk, last>>
  /\ UNCHANGED <<users, otps>>
  /\ verifyFrame

\* await prisma.otpCode.update; verifyOtp returns true, and the request
\* answers unless it has the user to activate
otpUpdate(i) ==
  /\ i \in DOMAIN calls /\ calls[i].pc = "update"
  /\ otps' = [otps EXCEPT ![calls[i].otpId].usedAt = now]
  /\ lastOk' = <<calls[i].userId, "REGISTER", calls[i].code>>
  /\ IF calls[i].wasActive
     THEN /\ calls' = [calls EXCEPT ![i].pc = "done", ![i].ok = TRUE]
          /\ last' = verifyAnswer(calls[i], TRUE)
     ELSE /\ calls' = [calls EXCEPT ![i].pc = "activate", ![i].ok = TRUE]
          /\ UNCHANGED last
  /\ UNCHANGED users
  /\ verifyFrame

\* await prisma.user.update, and the answer
activateUser(i) ==
  /\ i \in DOMAIN calls /\ calls[i].pc = "activate"
  /\ users' = activate(users, calls[i].userId)
  /\ calls' = [calls EXCEPT ![i].pc = "done"]
  /\ last' = verifyAnswer(calls[i], TRUE)
  /\ UNCHANGED <<otps, lastOk>>
  /\ verifyFrame

\* the database after one registerRequestOtp: an inactive user and one unused
\* REGISTER code
codeIssued ==
  /\ users = <<newUser("a@x.com", bcryptHash(1, "salt1"))>>
  /\ otps = <<newOtp(1, "REGISTER", "000000", "a@x.com", 0)>>
  /\ now = 0
  /\ lastOk = NoTriple
  /\ last = Obs("registerRequestOtp", "a@x.com", 1, NoCode, "ok", NoToken, NoTriple,
                FALSE, FALSE, TRUE)

InitVerify == codeIssued /\ emptyCourseTables

NextVerify ==
  \/ Tick /\ UNCHANGED courseVars
  \/ \E i \in VerifyCalls, e \in Emails, c \in Codes : beginVerify(i, e, c)
  \/ \E i \in VerifyCalls : findUser(i)
  \/ \E i \in VerifyCalls : otpFindFirst(i)
  \/ \E i \in VerifyCalls : otpUpdate(i)
  \/ \E i \in VerifyCalls : activateUser(i)

SpecVerify == InitVerify /\ [][NextVerify]_vars

(* ------------------------- two users at work --------------------------- *)
\* the addresses of the two users, and what they send
TwoEmails == {"a@x.com", "b@x.com"}
TwoPercents == {100, 101}
TwoScores == {-1, 1}

\* a holds a session; b has not registered yet; the catalogue has one course
\* with one lesson and its assignment
InitTwo == registeredUser /\ catalogOf(1)

\* a user with a session: sessions are only issued to activated users
activeUsers == {u \in DOMAIN users : users[u].isActive}

\* the requests of both users: they register with the same password, draw the
\* same code value, and reset to another password
NextTwo ==
  \/ \E e \in TwoEmails : registerRequestOtp(e, 1) /\ UNCHANGED courseVars
  \/ \E e \in TwoEmails : registerVerifyOtp(e, "000000") /\ UNCHANGED courseVars
  \/ \E e \in TwoEmails : loginWithPassword(e, 1) /\ UNCHANGED courseVars
  \/ \E e \in TwoEmails : requestPasswordReset(e) /\ UNCHANGED courseVars
  \/ \E e \in TwoEmails : confirmPasswordReset(e, "000000", 2) /\ UNCHANGED courseVars
  \/ \E u \in activeUsers, l \in LessonIds, p \in TwoPercents :
       updateLessonProgress(u, l, p) /\ UNCHANGED authVars
  \/ \E u \in activeUsers, sc \in TwoScores :
       submitAssignment(u, 1, sc) /\ UNCHANGED authVars

SpecTwo == InitTwo /\ [][NextTwo]_vars

(* ------------------------------ sessions ------------------------------- *)
\* jwt.verify(token, env.JWT_SECRET): the payload of a token whose signature
\* was made with the secret and whose exp lies ahead, or a throw
jwtVerify(token, signed, t) == signed /\ t < token.exp

\* authMiddleware on a request with the given token (NoToken: neither header is
\* there) at time t: the status it answers, or next() with req.userId
authMiddleware_revoking(token, signed, t) ==
  IF token = NoToken THEN [result |-> "No auth token provided", userId |-> NoUser]
  ELSE IF ~jwtVerify(token, signed, t)
         \/ \E i \in DOMAIN otps :
              /\ otps[i].userId = token.sub /\ otps[i].purpose = "PASSWORD_RESET"
              /\ otps[i].usedAt # NULL /\ token.exp <= otps[i].usedAt + JWT_EXP_MINUTES
    THEN [result |-> "Invalid or expired token", userId |-> NoUser]
  ELSE IF token.sub = NoUser THEN [result |-> "Invalid token payload", userId |-> NoUser]
  ELSE [result |-> "ok", userId |-> token.sub]
authMiddleware(token, signed, t) ==
  IF token = NoToken THEN [result |-> "No auth token provided", userId |-> NoUser]
  ELSE IF ~jwtVerify(token, signed, t)
    THEN [result |-> "Invalid or expired token", userId |-> NoUser]
  ELSE IF token.sub = NoUser THEN [result |-> "Invalid token payload", userId |-> NoUser]
  ELSE [result |-> "ok", userId |-> token.sub]

\* what a client can put in the x-auth-token header: a token the server
\* returned, signed with the secret, or a payload the client signed itself
header(token, signed) == [token |-> token, signed |-> signed]
noHeader == header(NoToken, FALSE)

\* the instants of the requests of a session: within the life of a code, and
\* at the end of the life of a token issued at 0 or at OTP_EXP_MINUTES
SessionTimes == {OTP_EXP_MINUTES, JWT_EXP_MINUTES, JWT_EXP_MINUTES + OTP_EXP_MINUTES}
sessionTick ==
  /\ \E t \in SessionTimes : now < t /\ now' = t
  /\ last' = Failed("tick", NoEmail, 0, NoCode, "ok")
  /\ UNCHANGED <<users, otps, lastOk>>

\* the client holds the token of its registration, and replaces it by the
\* token of a later login (calls holds the header the client sends); the
\* server stores nothing
InitSession ==
  /\ registeredUser
  /\ courses = EmptyTable
  /\ lessons = EmptyTable
  /\ assignments = EmptyTable
  /\ lessonProgress = EmptyTable
  /\ courseProgress = EmptyTable
  /\ userAssignments = EmptyTable
  /\ res = Req("init", NoUser, 0, 0, "ok", NULL)
  /\ calls = Upsert(EmptyTable, 1, header(last.token, TRUE))

keepToken ==
  calls' = IF last'.token = NoToken THEN calls
           ELSE Upsert(calls, 1, header(last'.token, TRUE))

sessionFrame ==
  UNCHANGED <<courses, lessons, assignments, lessonProgress, courseProgress,
              userAssignments, res>>

\* a request to a protected route with header h: the answer of authMiddleware
authorize(h) ==
  LET out == authMiddleware(h.token, h.signed, now) IN
  /\ res' = [op |-> "authMiddleware", userId |-> out.userId, id |-> 0, value |-> now,
             result |-> out.result, limit |-> NULL, body |-> <<h.token, h.signed>>]
  /\ UNCHANGED <<courses, lessons, assignments, lessonProgress, courseProgress,
                 userAssignments, calls>>
  /\ UNCHANGED authVars

\* the requests of one session: the client sends the token it holds, the same
\* payload under a signature of its own, or no header at all
NextSession ==
  \/ sessionTick /\ UNCHANGED courseVars
  \/ \E p \in {1, 2} : loginWithPassword("a@x.com", p) /\ keepToken /\ sessionFrame
  \/ requestPasswordReset("a@x.com") /\ keepToken /\ sessionFrame
  \/ confirmPasswordReset("a@x.com", "000000", 2) /\ keepToken /\ sessionFrame
  \/ \E h \in {calls[1], header(calls[1].token, FALSE), noHeader} : authorize(h)

SpecSession == InitSession /\ [][NextSession]_vars

(* ---------------------- a course nearly finished ------------------------ *)
\* the percents of a user one step short of the end of a lesson
NearPercents == {0, 99, 100}

\* one course with two active lessons
InitNear == registeredUser /\ courseOf(2)

\* the user works on the two lessons and submits the assignment of the first
\* while the admin switches lessons off and on
NextNear ==
  \/ \E l \in LessonIds, a \in {"true", "false"} : updateLesson(l, a) /\ UNCHANGED authVars
  \/ createOrUpdateAssignment(1, NULL, "unset") /\ UNCHANGED authVars
  \/ \E u \in DOMAIN users, l \in LessonIds, p \in NearPercents :
       updateLessonProgress(u, l, p) /\ UNCHANGED authVars
  \/ \E u \in DOMAIN users : submitAssignment(u, 1, 1) /\ UNCHANGED authVars

SpecNear == InitNear /\ [][NextNear]_vars

(* -------------------- content taken out of service --------------------- *)
\* two courses of one lesson each and an assignment on the first lesson
InitRetire == registeredUser /\ catalogOf(2)

\* the user works and reads the statistics while the admin switches courses,
\* lessons and the assignment off and on
NextRetire ==
  \/ \E c \in CourseIds, a \in {"true", "false"} : updateCourse(c, a) /\ UNCHANGED authVars
  \/ \E l \in LessonIds, a \in {"true", "false"} : updateLesson(l, a) /\ UNCHANGED authVars
  \/ \E a \in {"true", "false"} : updateAssignment(1, NULL, a) /\ UNCHANGED authVars
  \/ \E u \in DOMAIN users, l \in LessonIds, p \in RacePercents :
       updateLessonProgress(u, l, p) /\ UNCHANGED authVars
  \/ \E u \in DOMAIN users : submitAssignment(u, 1, 1) /\ UNCHANGED authVars
  \/ \E u \in DOMAIN users : profileStats(u) /\ UNCHANGED authVars

SpecRetire == InitRetire /\ [][NextRetire]_vars

(* ============================== claims ================================= *)
\* predicates of the claims, written on the rows themselves
RowIs(o, userId, purpose, code) == o.userId = userId /\ o.purpose = purpose /\ o.code = code
Unused(o) == o.usedAt = NULL
Expired(o) == now > o.expiresAt
HasEmail(tbl, email) == \E i \in DOMAIN tbl : tbl[i].email = email
IdOf(tbl, email) == CHOOSE i \in DOMAIN tbl : tbl[i].email = email
Accepts(u, password) == u.passwordHash.digest = <<u.passwordHash.salt, password>>
VerifyOps == {"registerVerifyOtp", "confirmPasswordReset"}

\* C1 (as stated): once verifyOtp(user, purpose, code) has returned true, the
\* next verifyOtp with the same (user, purpose, code) returns false.
C1_SecondVerifyFails == ~(last.verified /\ last.prevOk)

\* C2 (as stated): for every OtpCode row, when now is strictly after its
\* expiresAt, verifyOtp with the row's (user, purpose, code) returns false and
\* does not set the row's usedAt.
C2_ExpiredAlwaysFalse ==
  \A i \in DOMAIN otps :
    Expired(otps[i]) =>
      \A v \in verifyOtp(otps, now, otps[i].userId, otps[i].purpose, otps[i].code) :
        ~v.ok /\ v.otps[i].usedAt = otps[i].usedAt

\* C2 (amended): for every OtpCode row, when now is strictly after its
\* expiresAt, verifyOtp with the row's (user, purpose, code) never sets that
\* row's usedAt, and it returns true exactly when some other unused row with the
\* same (user, purpose, code) has not expired; it returns false when there is none.
C2_ExpiredRowNeverUsed ==
  \A i \in DOMAIN otps :
    Expired(otps[i]) =>
      \A v \in verifyOtp(otps, now, otps[i].userId, otps[i].purpose, otps[i].code) :
        /\ v.otps[i].usedAt = otps[i].usedAt
        /\ v.ok <=> \E j \in DOMAIN otps \ {i} :
                      /\ RowIs(otps[j], otps[i].userId, otps[i].purpose, otps[i].code)
                      /\ Unused(otps[j]) /\ ~Expired(otps[j])

\* C2 witness: a verify request was just refused on a code whose only row is
\* unused and expired.
C2_Witness ==
  /\ last.op \in VerifyOps /\ last.result = "Invalid or expired code"
  /\ \E i \in DOMAIN otps :
       /\ RowIs(otps[i], last.triple[1], last.triple[2], last.triple[3])
       /\ Unused(otps[i]) /\ Expired(otps[i])

\* the row that alone carries (userId, purpose, code), when there is exactly one
OnlyRow(userId, purpose, code) ==
  {i \in DOMAIN otps :
     /\ RowIs(otps[i], userId, purpose, code)
     /\ \A j \in DOMAIN otps : RowIs(otps[j], userId, purpose, code) => j = i}

\* C3 (as stated): when exactly one row matches (user, purpose, code), verifyOtp
\* returns true iff the row is unused and now is strictly before its expiresAt.
C3_ValidIffStrictlyBefore ==
  \A u \in DOMAIN users, p \in Purposes, c \in Codes :
    \A i \in OnlyRow(u, p, c) :
      \A v \in verifyOtp(otps, now, u, p, c) :
        v.ok <=> (Unused(otps[i]) /\ now < otps[i].expiresAt)

\* C3 (amended): when exactly one row matches (user, purpose, code), verifyOtp
\* returns true iff the row is unused and now is not after its expiresAt; a
\* verify at the instant now = expiresAt returns true.
C3_ValidIffNotAfter ==
  \A u \in DOMAIN users, p \in Purposes, c \in Codes :
    \A i \in OnlyRow(u, p, c) :
      \A v \in verifyOtp(otps, now, u, p, c) :
        v.ok <=> (Unused(otps[i]) /\ now <= otps[i].expiresAt)

\* C3 witness: a verify request succeeded on the only row of its code at the
\* instant the row expires.
C3_Witness ==
  /\ last.op \in VerifyOps /\ last.verified
  /\ \E i \in OnlyRow(last.triple[1], last.triple[2], last.triple[3]) :
       otps[i].usedAt = otps[i].expiresAt /\ now = otps[i].expiresAt
\* C4: for a user created by registerRequestOtp, registerVerifyOtp(email, code)
\* with a code that has an unused, unexpired REGISTER row of the user sets
\* isActive and returns a token whose subject is the user's id; with a code that
\* has no unused REGISTER row of the user it fails with 'Invalid or expired
\* code', returns no token and leaves isActive as it was (false stays false).
C4_RegisterVerify ==
  [][(last'.op = "registerVerifyOtp" /\ HasEmail(users, last'.email)) =>
       LET id == IdOf(users, last'.email)
           Rows == {i \in DOMAIN otps :
                      RowIs(otps[i], id, "REGISTER", last'.code) /\ Unused(otps[i])}
       IN /\ (\E i \in Rows : ~Expired(otps[i])) =>
               /\ users'[id].isActive
               /\ last'.result = "ok"
               /\ last'.token # NoToken /\ last'.token.sub = id
          /\ Rows = {} =>
               /\ last'.result = "Invalid or expired code"
               /\ last'.token = NoToken
               /\ users'[id].isActive = users[id].isActive
               /\ users' = users /\ otps' = otps]_vars

\* C4 witness: registerVerifyOtp has just activated the user and returned a
\* token for it.
C4_Witness ==
  /\ last.op = "registerVerifyOtp" /\ last.result = "ok"
  /\ HasEmail(users, last.email)
  /\ users[IdOf(users, last.email)].isActive
  /\ last.token.sub = IdOf(users, last.email)

UsedRegisterRow(id) ==
  \E i \in DOMAIN otps :
    otps[i].userId = id /\ otps[i].purpose = "REGISTER" /\ ~Unused(otps[i])

\* C5: a user is active only if one of its REGISTER rows is used; a user is
\* created inactive; isActive goes from false to true only in a
\* registerVerifyOtp request of that user whose verifyOtp returned true; and it
\* never goes from true to false.
C5_ActivationOnlyByVerify ==
  /\ [](\A id \in DOMAIN users : users[id].isActive => UsedRegisterRow(id))
  /\ [][/\ DOMAIN users \subseteq DOMAIN users'
        /\ \A id \in DOMAIN users' \ DOMAIN users : ~users'[id].isActive
        /\ \A id \in DOMAIN users :
             /\ users[id].isActive => users'[id].isActive
             /\ (~users[id].isActive /\ users'[id].isActive) =>
                  /\ last'.op = "registerVerifyOtp"
                  /\ last'.verified
                  /\ last'.triple = <<id, "REGISTER", last'.code>>
                  /\ users[id].email = last'.email]_vars

\* C5 witness: a user activated earlier is still active after a
\* registerVerifyOtp request of it that was refused.
C5_Witness ==
  /\ last.op = "registerVerifyOtp" /\ last.result = "Invalid or expired code"
  /\ \E id \in DOMAIN users :
       users[id].email = last.email /\ users[id].isActive /\ UsedRegisterRow(id)

\* C6: registerRequestOtp for an email that already has a User row (active or
\* not) fails with the duplicate-email error, creates no User row, issues no
\* OtpCode and dispatches no email; no two users ever share an email.
C6_DuplicateEmail ==
  /\ [](\A i, j \in DOMAIN users : users[i].email = users[j].email => i = j)
  /\ [][(last'.op = "registerRequestOtp" /\ HasEmail(users, last'.email)) =>
          /\ last'.result = "User with this email already exists"
          /\ users' = users /\ otps' = otps
          /\ ~last'.sent]_vars

\* C6 witness: a registration was refused for the email of an inactive user.
C6_Witness ==
  /\ last.op = "registerRequestOtp"
  /\ last.result = "User with this email already exists"
  /\ \E i \in DOMAIN users : users[i].email = last.email /\ ~users[i].isActive

\* C7: loginWithPassword returns a token iff a user with the email exists, is
\* active and the password matches its current passwordHash; it fails 'User not
\* found or inactive' when the user is absent or inactive, 'Invalid
\* credentials' on mismatch, and changes no stored row.
C7_Login ==
  [][last'.op = "loginWithPassword" =>
       LET e == last'.email
           good == HasEmail(users, e) /\ users[IdOf(users, e)].isActive
       IN /\ users' = users /\ otps' = otps
          /\ (last'.token # NoToken) <=> (good /\ Accepts(users[IdOf(users, e)], last'.password))
          /\ (last'.token # NoToken) => (last'.result = "ok" /\ last'.token.sub = IdOf(users, e))
          /\ ~good => last'.result = "User not found or inactive"
          /\ (good /\ ~Accepts(users[IdOf(users, e)], last'.password)) =>
               last'.result = "Invalid credentials"]_vars

\* C7 witness: a login with a wrong password was refused for an active user.
C7_Witness ==
  /\ last.op = "loginWithPassword" /\ last.result = "Invalid credentials"
  /\ \E i \in DOMAIN users : users[i].email = last.email /\ users[i].isActive

\* C8: requestPasswordReset for an email of no user, or of an inactive user,
\* returns success and changes nothing: no OtpCode row, no User row changed, no
\* email dispatched.
C8_SilentReset ==
  [][(/\ last'.op = "requestPasswordReset"
      /\ (~HasEmail(users, last'.email) \/ ~users[IdOf(users, last'.email)].isActive)) =>
       /\ last'.result = "ok"
       /\ users' = users /\ otps' = otps
       /\ ~last'.sent]_vars

\* C8 witness: a password reset was requested for an inactive user and
\* answered with success.
C8_Witness ==
  /\ last.op = "requestPasswordReset" /\ last.result = "ok"
  /\ \E i \in DOMAIN users : users[i].email = last.email /\ ~users[i].isActive

\* C9 (as stated): whatever the account behind the email and whatever the email
\* dispatcher does, the caller of requestPasswordReset observes success.
C9_ResetAlwaysSucceeds ==
  last.op = "requestPasswordReset" => last.result = "ok"

\* C10: confirmPasswordReset succeeds only for an existing active user and an
\* unused, unexpired PASSWORD_RESET row of the code; on success exactly that row
\* becomes used and the stored hash accepts newPassword and no other password;
\* on every failure no passwordHash changes and no OtpCode becomes used.
C10_ConfirmReset ==
  [][last'.op = "confirmPasswordReset" =>
       IF last'.result = "ok"
       THEN /\ HasEmail(users, last'.email)
            /\ LET id == IdOf(users, last'.email) IN
                 /\ users[id].isActive
                 /\ \E i \in DOMAIN otps :
                      /\ RowIs(otps[i], id, "PASSWORD_RESET", last'.code)
                      /\ Unused(otps[i]) /\ ~Expired(otps[i])
                      /\ otps' = [otps EXCEPT ![i].usedAt = now]
                 /\ Accepts(users'[id], last'.password)
                 /\ \A q \in Passwords \ {last'.password} : ~Accepts(users'[id], q)
                 /\ users'[id].isActive
                 /\ \A j \in DOMAIN users \ {id} : users'[j] = users[j]
       ELSE users' = users /\ otps' = otps]_vars

\* C10 witness: a reset was confirmed with a new password that differs from
\* the one the account was registered with, and the stored hash accepts it.
C10_Witness ==
  /\ last.op = "confirmPasswordReset" /\ last.result = "ok"
  /\ \E id \in DOMAIN users :
       /\ users[id].email = last.email
       /\ Accepts(users[id], last.password)
       /\ \E q \in Passwords \ {last.password} : ~Accepts(users[id], q)

(* ---------------------- claims on course progress ---------------------- *)
\* predicates of the claims, written on the rows themselves
IsSet(t) == t # NULL
Succeeded(r, op) == r.op = op /\ r.result = "ok"
LessonKey(r) == <<r.userId, r.id>>

\* C11 (as stated): a successful updateLessonProgress(user, lesson, p) leaves
\* the row with progressPercent p and completedAt set iff p = 100, so every
\* lesson-progress row has completedAt set iff its progressPercent is 100.
C11_CompletedIffHundred ==
  /\ [](\A k \in DOMAIN lessonProgress :
          IsSet(lessonProgress[k].completedAt) <=> lessonProgress[k].progressPercent = 100)
  /\ [][Succeeded(res', "updateLessonProgress") =>
          /\ LessonKey(res') \in DOMAIN lessonProgress'
          /\ lessonProgress'[LessonKey(res')].progressPercent = res'.value
          /\ IsSet(lessonProgress'[LessonKey(res')].completedAt) <=> res'.value = 100]_vars

\* C11 (amended): a successful updateLessonProgress(user, lesson, p) leaves the
\* row with progressPercent p; completedAt is the time of the call if p = 100,
\* and otherwise unset on a new row and left as it was on an existing one; so
\* every row with progressPercent 100 has completedAt set.
C11_StoresPercent ==
  /\ [](\A k \in DOMAIN lessonProgress :
          lessonProgress[k].progressPercent = 100 => IsSet(lessonProgress[k].completedAt))
  /\ [][Succeeded(res', "updateLessonProgress") =>
          /\ LessonKey(res') \in DOMAIN lessonProgress'
          /\ lessonProgress'[LessonKey(res')].progressPercent = res'.value
          /\ lessonProgress'[LessonKey(res')].completedAt =
               IF res'.value = 100 THEN now'
               ELSE IF LessonKey(res') \in DOMAIN lessonProgress
                      THEN lessonProgress[LessonKey(res')].completedAt
                      ELSE NULL]_vars

\* a lesson completed earlier has been set back below 100
C11_Witness ==
  /\ Succeeded(res, "updateLessonProgress")
  /\ res.value < 100
  /\ IsSet(lessonProgress[LessonKey(res)].completedAt)

\* C12: updateLessonProgress(user, lesson, p) with p < 0 or p > 100 fails with
\* the range error whether or not the lesson exists, and a call with p in range
\* for a lesson that does not exist fails 'Lesson not found'; in both cases
\* every lesson-progress and course-progress row is left as it was.
C12_RejectedUpdate ==
  [][res'.op = "updateLessonProgress" =>
       /\ (res'.value < 0 \/ res'.value > 100) =>
            /\ res'.result = "Progress percent must be between 0 and 100"
            /\ lessonProgress' = lessonProgress
            /\ courseProgress' = courseProgress
       /\ (0 <= res'.value /\ res'.value <= 100 /\ res'.id \notin DOMAIN lessons) =>
            /\ res'.result = "Lesson not found"
            /\ lessonProgress' = lessonProgress
            /\ courseProgress' = courseProgress]_vars

\* an out-of-range percent for a lesson that does not exist has been rejected
\* while the user has progress rows
C12_Witness ==
  /\ res.op = "updateLessonProgress"
  /\ res.value > 100
  /\ res.id \notin DOMAIN lessons
  /\ res.result = "Progress percent must be between 0 and 100"
  /\ lessonProgress # EmptyTable
  /\ courseProgress # EmptyTable

\* the course the user works through: its lessons, the lessons done, its row
FillN == Cardinality(DOMAIN lessons)
FillK == Cardinality({k \in DOMAIN lessonProgress : lessonProgress[k].progressPercent = 100})
\* r is x / n rounded to the nearest integer, halves up
IsRounded(r, x, n) == 2 * r * n - n <= 2 * x /\ 2 * x < 2 * r * n + n

\* C13 (as stated): after updateLessonProgress(user, lesson, 100) on k of the
\* n active lessons of a course (1 <= k <= n) and nothing else, the course row
\* has progressPercent round(100*k/n), halves up, and completedAt set only
\* when k = n.
C13_CompletedOnlyWhenAll ==
  FillK >= 1 =>
    /\ <<1, 1>> \in DOMAIN courseProgress
    /\ IsRounded(courseProgress[<<1, 1>>].progressPercent, 100 * FillK, FillN)
    /\ IsSet(courseProgress[<<1, 1>>].completedAt) => FillK = FillN

\* C13 (amended): after updateLessonProgress(user, lesson, 100) on k of the n
\* active lessons of a course (1 <= k <= n) and nothing else, the course row
\* has progressPercent round(100*k/n), halves up, and completedAt set exactly
\* when that value is 100, that is when 200 * (n - k) <= n: only at k = n for
\* n < 200, and already at k = 199 for n = 200.
C13_CompletedWhenRoundedHundred ==
  FillK >= 1 =>
    /\ <<1, 1>> \in DOMAIN courseProgress
    /\ IsRounded(courseProgress[<<1, 1>>].progressPercent, 100 * FillK, FillN)
    /\ IsSet(courseProgress[<<1, 1>>].completedAt) <=> 200 * (FillN - FillK) <= FillN
    /\ FillN < 200 => (IsSet(courseProgress[<<1, 1>>].completedAt) <=> FillK = FillN)

\* 199 of 200 lessons done: the course row reads 100 and is completed
C13_Witness ==
  /\ FillN = 200
  /\ FillK = 199
  /\ Succeeded(res, "updateLessonProgress")
  /\ courseProgress[<<1, 1>>].progressPercent = 100
  /\ IsSet(courseProgress[<<1, 1>>].completedAt)

\* the user's stored percents over a set of lessons, an unstarted lesson counting 0
RECURSIVE SumPercent(_, _)
SumPercent(userId, ids) ==
  IF ids = {} THEN 0
  ELSE LET l == CHOOSE x \in ids : TRUE
       IN (IF <<userId, l>> \in DOMAIN lessonProgress
             THEN lessonProgress[<<userId, l>>].progressPercent ELSE 0)
          + SumPercent(userId, ids \ {l})
ActiveOf(courseId) ==
  {l \in DOMAIN lessons : lessons[l].courseId = courseId /\ lessons[l].isActive}

\* C14 (as stated): in every state reachable by updateLessonProgress,
\* submitAssignment, createLesson, updateLesson and deleteLesson, every
\* course-progress row holds the rounded mean of the user's lesson percents
\* over the currently active lessons of the course.
C14_CourseRowIsMean ==
  \A k \in DOMAIN courseProgress :
    ActiveOf(k[2]) # {} =>
      IsRounded(courseProgress[k].progressPercent, SumPercent(k[1], ActiveOf(k[2])),
                Cardinality(ActiveOf(k[2])))

\* C15: submitAssignment(user, assignment, answers, score) fails 'Assignment
\* not found' for an assignment that does not exist and with the score-range
\* error for score < 0 or score > maxScore, writing nothing; otherwise it
\* upserts the one (user, assignment) row with that score, and the owning
\* lesson's progress row then reads 100 with completedAt set.
C15_SubmitAssignment ==
  [][res'.op = "submitAssignment" =>
       LET key == <<res'.userId, res'.id>>
           nothingWritten == /\ userAssignments' = userAssignments
                             /\ lessonProgress' = lessonProgress
                             /\ courseProgress' = courseProgress
       IN IF res'.id \notin DOMAIN assignments
          THEN res'.result = "Assignment not found" /\ nothingWritten
          ELSE IF res'.value < 0 \/ res'.value > assignments[res'.id].maxScore
          THEN /\ res'.result = "Score must be between 0 and"
               /\ res'.limit = assignments[res'.id].maxScore
               /\ nothingWritten
          ELSE /\ res'.result = "ok"
               /\ DOMAIN userAssignments' = DOMAIN userAssignments \cup {key}
               /\ userAssignments'[key].score = res'.value
               /\ \A k \in DOMAIN userAssignments \ {key} :
                    userAssignments'[k] = userAssignments[k]
               /\ LET lesson == <<res'.userId, assignments[res'.id].lessonId>> IN
                    /\ lesson \in DOMAIN lessonProgress'
                    /\ lessonProgress'[lesson].progressPercent = 100
                    /\ IsSet(lessonProgress'[lesson].completedAt)]_vars

\* a submission with the full score has been stored and its lesson completed
C15_Witness ==
  /\ Succeeded(res, "submitAssignment")
  /\ res.value = assignments[res.id].maxScore
  /\ userAssignments[<<res.userId, res.id>>].score = res.value
  /\ lessonProgress[<<res.userId, assignments[res.id].lessonId>>].progressPercent = 100

\* C16 (as stated): in every state reachable by submitAssignment,
\* createOrUpdateAssignment and updateAssignment, every submission row has
\* 0 <= score <= maxScore of its assignment as currently stored.
C16_ScoreWithinMax ==
  \A k \in DOMAIN userAssignments :
    /\ 0 <= userAssignments[k].score
    /\ userAssignments[k].score <= assignments[k[2]].maxScore

(* ------------------------ claims on the profile ------------------------ *)
AchievementOrder ==
  <<"first_course", "first_completed", "five_courses", "ten_courses",
    "all_assignments", "perfect_progress">>
\* the rule of an achievement, on the statistics of the current state
RuleHolds(id) ==
  LET stats == getUserStats(res.userId) IN
  CASE id = "first_course" -> stats.startedCourses >= 1
    [] id = "first_completed" -> stats.completedCourses >= 1
    [] id = "five_courses" -> stats.completedCourses >= 5
    [] id = "ten_courses" -> stats.completedCourses >= 10
    [] id = "all_assignments" ->
         stats.completedAssignments > 0
         /\ stats.completedAssignments = stats.totalAssignments
    [] id = "perfect_progress" -> stats.averageProgress = 100 /\ stats.startedCourses > 0
Listed(id, body) == \E i \in DOMAIN body : body[i] = id

\* C17: getUserAchievements returns exactly the achievements whose rule holds
\* on the statistics of the state it reads, in the fixed order first_course,
\* first_completed, five_courses, ten_courses, all_assignments,
\* perfect_progress; so first_course is listed iff startedCourses >= 1 and
\* perfect_progress iff averageProgress = 100 and startedCourses > 0.
C17_Achievements ==
  res.op = "getUserAchievements" =>
    /\ res.body = SelectSeq(AchievementOrder, RuleHolds)
    /\ Listed("first_course", res.body) <=> getUserStats(res.userId).startedCourses >= 1
    /\ Listed("perfect_progress", res.body) <=>
         (getUserStats(res.userId).averageProgress = 100
          /\ getUserStats(res.userId).startedCourses > 0)

\* all six achievements have been returned: ten courses completed, the
\* assignment submitted
C17_Witness ==
  /\ res.op = "getUserAchievements"
  /\ res.body = AchievementOrder
  /\ Cardinality({k \in DOMAIN courseProgress :
                    courseProgress[k].progressPercent = 100}) >= 10

\* the lessons of active courses, the assignments of active lessons of active
\* courses, and the active ones among them
InActiveCourse(l) == courses[lessons[l].courseId].isActive
OnActiveLesson(a) ==
  lessons[assignments[a].lessonId].isActive /\ InActiveCourse(assignments[a].lessonId)

BothDone == DOMAIN calls = {1, 2} /\ \A i \in DOMAIN calls : calls[i].pc = "done"
\* the sum of the percents in a set of rows a request read
RECURSIVE SumRows(_, _)
SumRows(rows, keys) ==
  IF keys = {} THEN 0
  ELSE LET k == CHOOSE x \in keys : TRUE
       IN rows[k].progressPercent + SumRows(rows, keys \ {k})
\* the course row differs from the rounded mean of the stored lesson rows
StaleCourseRow(userId, courseId) ==
  ~IsRounded(courseProgress[<<userId, courseId>>].progressPercent,
             SumPercent(userId, ActiveOf(courseId)), Cardinality(ActiveOf(courseId)))

\* C19: two concurrent updateLessonProgress calls of one user on the two
\* active lessons of a course can both complete and leave a course row that
\* differs from the rounded mean of the stored lesson percents (C19_Witness is
\* such a state). Whenever both have completed, the course row is the rounded
\* mean of the rows read by the call that wrote it last, so it is stale only
\* if that call read the lesson rows before the other call's lesson upsert.
C19_LastWriterSnapshot ==
  BothDone =>
    LET writer == calls[res.id] IN
      /\ IsRounded(courseProgress[<<1, 1>>].progressPercent,
                   SumRows(writer.rows, DOMAIN writer.rows), Cardinality(ActiveOf(1)))
      /\ StaleCourseRow(1, 1) =>
           \E i \in DOMAIN calls :
             i # res.id /\ <<1, calls[i].lessonId>> \notin DOMAIN writer.rows

\* both calls have completed and the course row is not the rounded mean of
\* the stored lesson rows
C19_Witness == BothDone /\ StaleCourseRow(1, 1)

\* C20 (as stated): with exactly one unused, unexpired code record matching
\* (user, purpose, code), of two concurrent verifyOtp calls for it at most one
\* returns true.
C20_AtMostOneVerifies ==
  Cardinality({i \in DOMAIN calls : calls[i].ok}) <= 1

(* ---------------------------------------------------------------------- *)
\* the users a step was made for: the owner of the address of an authentication
\* request (the row may have been created by the step), or the user of a
\* progress request
Actors ==
  IF courseVars' = courseVars
    THEN {i \in DOMAIN users' : users'[i].email = last'.email}
    ELSE {res'.userId}

\* the rows of table tbl that user v owns (keys are <<userId, id>>)
RowsOf(tbl, v) == [k \in {q \in DOMAIN tbl : q[1] = v} |-> tbl[k]]

\* C21: a request made for user u, successful or not, leaves the User row, the
\* OtpCode rows and the lesson-progress, course-progress and assignment rows
\* of every other user as they were, and creates no row for another user
C21_OtherUsersUnchanged ==
  [][ /\ DOMAIN users' \ DOMAIN users \subseteq Actors
      /\ \A i \in DOMAIN otps' \ DOMAIN otps : otps'[i].userId \in Actors
      /\ \A v \in DOMAIN users \ Actors :
           /\ users'[v] = users[v]
           /\ \A i \in DOMAIN otps :
                otps[i].userId = v => i \in DOMAIN otps' /\ otps'[i] = otps[i]
           /\ RowsOf(lessonProgress', v) = RowsOf(lessonProgress, v)
           /\ RowsOf(courseProgress', v) = RowsOf(courseProgress, v)
           /\ RowsOf(userAssignments', v) = RowsOf(userAssignments, v) ]_vars

\* the second user has reset the password and submitted the assignment while
\* the first user holds a lesson row, a course row and a submission
C21_Witness ==
  /\ last.op = "confirmPasswordReset" /\ last.email = "b@x.com" /\ last.result = "ok"
  /\ res.op = "submitAssignment" /\ res.userId = 2 /\ res.result = "ok"
  /\ <<1, 1>> \in DOMAIN lessonProgress
  /\ <<1, 1>> \in DOMAIN courseProgress
  /\ <<1, 1>> \in DOMAIN userAssignments

(* ---------------------------------------------------------------------- *)
\* record o is an unused code of the (userId, purpose, code) triple
OpenCode(o, triple) ==
  /\ <<o.userId, o.purpose, o.code>> = triple
  /\ o.usedAt = NULL

\* C22: a verifyOtp call that returns true sets usedAt on exactly one record, an
\* unused record of the triple than which no unused record of the triple was
\* created later, and changes no other record; a call that returns false
\* changes no record; no step removes a record, changes a used record, or
\* changes anything but usedAt of an unused one
C22_VerifyMarksNewest ==
  [][ /\ last'.triple # NoTriple /\ last'.verified =>
           \E i \in DOMAIN otps :
             /\ OpenCode(otps[i], last'.triple)
             /\ \A j \in DOMAIN otps :
                  OpenCode(otps[j], last'.triple) => otps[j].createdAt <= otps[i].createdAt
             /\ otps' = [otps EXCEPT ![i].usedAt = now]
      /\ last'.triple # NoTriple /\ ~last'.verified => otps' = otps
      /\ Len(otps') >= Len(otps)
      /\ \A i \in DOMAIN otps :
           /\ otps[i].usedAt # NULL => otps'[i] = otps[i]
           /\ [otps'[i] EXCEPT !.usedAt = NULL] = [otps[i] EXCEPT !.usedAt = NULL] ]_vars

\* a verification succeeded on the later of two unused codes of one triple,
\* and the earlier one is still unused
C22_Witness ==
  /\ last.verified
  /\ \E i, j \in DOMAIN otps :
       /\ <<otps[j].userId, otps[j].purpose, otps[j].code>> = last.triple
       /\ OpenCode(otps[i], last.triple)
       /\ otps[i].createdAt < otps[j].createdAt
       /\ otps[j].usedAt = now

(* ---------------------------------------------------------------------- *)
\* the step issued a code: a password-reset request of an activated user, or a
\* registration request for an address no user has
Issues(purpose) ==
  \/ /\ purpose = "PASSWORD_RESET"
     /\ last'.op = "requestPasswordReset"
     /\ \E i \in DOMAIN users : users[i].email = last'.email /\ users[i].isActive
  \/ /\ purpose = "REGISTER"
     /\ last'.op = "registerRequestOtp"
     /\ ~HasEmail(users, last'.email)

\* record j is a code of the same user and purpose as record i, with another
\* value, issued after it
NewerOther(tbl, i, j) ==
  /\ tbl[j].userId = tbl[i].userId /\ tbl[j].purpose = tbl[i].purpose
  /\ tbl[j].code # tbl[i].code
  /\ tbl[j].createdAt > tbl[i].createdAt

\* C23: every request that issues a code adds one unused record created at the
\* time of the request, whatever codes are outstanding and however recently the
\* last one was issued, and leaves the records there were as they were; and a
\* verification with the value of an unused, unexpired code succeeds although
\* a code with another value was issued later for the same user and purpose
C23_IssueKeepsOlderCodes ==
  [][ /\ \A purpose \in Purposes :
           Issues(purpose) =>
             /\ Len(otps') = Len(otps) + 1
             /\ SubSeq(otps', 1, Len(otps)) = otps
             /\ otps'[Len(otps')].purpose = purpose
             /\ users'[otps'[Len(otps')].userId].email = last'.email
             /\ otps'[Len(otps')].createdAt = now
             /\ otps'[Len(otps')].usedAt = NULL
      /\ last'.triple # NoTriple
           /\ (\E i, j \in DOMAIN otps :
                 /\ OpenCode(otps[i], last'.triple) /\ ~Expired(otps[i])
                 /\ NewerOther(otps, i, j))
           => last'.verified ]_vars

\* a reset was confirmed with the older of two codes, at a time when the newer
\* one, of another value, was outstanding since less than OTP_EXP_MINUTES
C23_Witness ==
  /\ last.op = "confirmPasswordReset" /\ last.verified
  /\ \E i, j \in DOMAIN otps :
       /\ <<otps[i].userId, otps[i].purpose, otps[i].code>> = last.triple
       /\ otps[i].usedAt = now
       /\ NewerOther(otps, i, j)
       /\ otps[j].usedAt = NULL /\ ~Expired(otps[j])

(* ---------------------------------------------------------------------- *)
\* the purpose a verifying request passes to verifyOtp
PurposeOf(op) == IF op = "registerVerifyOtp" THEN "REGISTER" ELSE "PASSWORD_RESET"

\* C24: registerVerifyOtp and confirmPasswordReset succeed only if an unused
\* record with the user of the request's address, the purpose of the request
\* and the code of the request was there: a code of the other purpose or of
\* another user never makes them succeed
C24_ScopedToUserAndPurpose ==
  [][ /\ courseVars' = courseVars
      /\ last'.op \in {"registerVerifyOtp", "confirmPasswordReset"}
      /\ last'.result = "ok"
      =>
        /\ HasEmail(users, last'.email)
        /\ \E i \in DOMAIN otps :
             OpenCode(otps[i], <<IdOf(users, last'.email), PurposeOf(last'.op), last'.code>>)
        /\ last'.verified
        /\ last'.triple = <<IdOf(users, last'.email), PurposeOf(last'.op), last'.code>> ]_vars

\* the activated second user was refused a reset with a code value that is
\* outstanding as a reset code of the first user and was the second user's own
\* registration code
C24_Witness ==
  /\ last.op = "confirmPasswordReset" /\ last.email = "b@x.com"
  /\ last.result = "Invalid or expired code"
  /\ \E i, j \in DOMAIN otps :
       /\ OpenCode(otps[i], <<1, "PASSWORD_RESET", last.code>>) /\ ~Expired(otps[i])
       /\ <<otps[j].userId, otps[j].purpose, otps[j].code>> = <<2, "REGISTER", last.code>>

(* ---------------------------------------------------------------------- *)
\* on the rows of a progress table whose percent is below 100 after the step:
\* a row that was there keeps its completedAt, a row the step created has none
KeepsCompletedAt(old, new) ==
  \A k \in DOMAIN new :
    new[k].progressPercent < 100 =>
      new[k].completedAt = IF k \in DOMAIN old THEN old[k].completedAt ELSE NULL

\* C25: a successful updateLessonProgress with p < 100 stores p and leaves the
\* completedAt the lesson row had; a course row whose recomputed percent is
\* below 100 keeps the completedAt it had; a row created with a percent below
\* 100 has completedAt unset
C25_CompletedAtNotCleared ==
  [][ /\ Succeeded(res', "updateLessonProgress") /\ res'.value < 100 =>
           lessonProgress'[LessonKey(res')].progressPercent = res'.value
      /\ KeepsCompletedAt(lessonProgress, lessonProgress')
      /\ KeepsCompletedAt(courseProgress, courseProgress') ]_vars

\* an update to 0 has just left a lesson row and its course row below 100 with
\* completedAt set
C25_Witness ==
  /\ Succeeded(res, "updateLessonProgress") /\ res.value = 0
  /\ lessonProgress[LessonKey(res)].progressPercent = 0
  /\ IsSet(lessonProgress[LessonKey(res)].completedAt)
  /\ \E k \in DOMAIN courseProgress :
       /\ k[1] = res.userId /\ k[2] = lessons[res.id].courseId
       /\ courseProgress[k].progressPercent < 100
       /\ IsSet(courseProgress[k].completedAt)

(* ---------------------------------------------------------------------- *)
\* the token of an authorized request, whether the secret signed it, and the
\* time the token was issued
TokenOf(r) == r.body[1]
SignedOf(r) == r.body[2]
IssuedAt(token) == token.exp - JWT_EXP_MINUTES

\* C26: authMiddleware lets a request proceed, with userId the user the token
\* was issued for, exactly when the header carries a token signed with the
\* secret whose expiry lies ahead: whatever was done to the user since the
\* token was issued, a successful password reset included, no token is
\* refused before its expiry, and the store is left as it was
C26_TokensNeverRevoked ==
  [][ res'.op = "authMiddleware" /\ res' # res =>
        /\ res'.result = "ok" <=>
             /\ TokenOf(res') # NoToken /\ SignedOf(res')
             /\ now < TokenOf(res').exp
        /\ res'.result = "ok" => res'.userId = TokenOf(res').sub
        /\ res'.result # "ok" => res'.userId = NoUser
        /\ SignedOf(res') => TokenOf(res').sub \in DOMAIN users
        /\ UNCHANGED <<users, otps>> ]_vars

\* a request was let through with a token issued before the user's password
\* was reset to another one, at a time after the reset
C26_Witness ==
  /\ res.op = "authMiddleware" /\ res.result = "ok" /\ res.userId = 1
  /\ ~Accepts(users[1], 1)
  /\ \E i \in DOMAIN otps :
       /\ otps[i].userId = 1 /\ otps[i].purpose = "PASSWORD_RESET"
       /\ IsSet(otps[i].usedAt)
       /\ IssuedAt(TokenOf(res)) <= otps[i].usedAt
       /\ otps[i].usedAt < res.value

(* ---------------------------------------------------------------------- *)
\* the REGISTER records of user u, and the dead end: u is inactive and each of
\* them has expired
RegisterCodes(tbl, u) == {i \in DOMAIN tbl : tbl[i].userId = u /\ tbl[i].purpose = "REGISTER"}
DeadEnd(u) == ~users[u].isActive /\ \A i \in RegisterCodes(otps, u) : Expired(otps[i])

\* what each request answers for the address of a user in the dead end
DeadAnswer(op) ==
  CASE op = "registerRequestOtp" -> "User with this email already exists"
    [] op = "registerVerifyOtp" -> "Invalid or expired code"
    [] op = "loginWithPassword" -> "User not found or inactive"
    [] op = "requestPasswordReset" -> "ok"
    [] op = "confirmPasswordReset" -> "User not found or inactive"

\* C27: every user has exactly one REGISTER record, issued by the request that
\* created the user; once the user is inactive with that record expired, every
\* request leaves the user inactive and the code table as it was, and a request
\* for the user's address gets the duplicate-email error (registerRequestOtp),
\* an error (registerVerifyOtp, loginWithPassword, confirmPasswordReset) or an
\* answer with nothing issued and nothing sent (requestPasswordReset)
C27_RegistrationDeadEnd ==
  /\ [](\A u \in DOMAIN users : Cardinality(RegisterCodes(otps, u)) = 1)
  /\ [][ \A u \in DOMAIN users :
           DeadEnd(u) =>
             /\ users' = users
             /\ otps' = otps
             /\ last'.op # "tick" /\ last'.email = users[u].email =>
                  /\ last'.result = DeadAnswer(last'.op)
                  /\ last'.token = NoToken
                  /\ ~last'.sent ]_vars

\* a user in the dead end has just been refused with the code that was issued
\* at registration
C27_Witness ==
  /\ last.op = "registerVerifyOtp" /\ last.result = "Invalid or expired code"
  /\ \E u \in DOMAIN users :
       /\ DeadEnd(u) /\ users[u].email = last.email
       /\ \E i \in RegisterCodes(otps, u) : otps[i].code = last.code

(* ---------------------------------------------------------------------- *)
\* the last request was a completed updateLessonProgress or submitAssignment;
\* the lesson it wrote, the course of that lesson and the course row of the user
JustUpdated == res.op \in {"updateLessonProgress", "submitAssignment"} /\ res.result = "ok"
LessonOf(r) == IF r.op = "submitAssignment" THEN assignments[r.id].lessonId ELSE r.id
CourseOf(r) == lessons[LessonOf(r)].courseId
CourseKey(r) == <<r.userId, CourseOf(r)>>
AtHundred(r) ==
  CourseKey(r) \in DOMAIN courseProgress /\ courseProgress[CourseKey(r)].progressPercent = 100

\* C28 (as stated): right after a completed updateLessonProgress or
\* submitAssignment the course row of the user reads 100 only if the user has a
\* row with 100 on every currently active lesson of the course
C28_HundredOnlyWhenAll ==
  JustUpdated /\ AtHundred(res) =>
    \A l \in ActiveOf(CourseOf(res)) :
      /\ <<res.userId, l>> \in DOMAIN lessonProgress
      /\ lessonProgress[<<res.userId, l>>].progressPercent = 100

\* C28 (amended): right after a completed updateLessonProgress or
\* submitAssignment on a lesson of a course with n >= 1 active lessons, the
\* course row of the user exists and reads 100 exactly when the percents the
\* user lacks on the active lessons (100 for a lesson without a row) add up to
\* at most n / 2; it is then marked completed
C28_HundredWhenRoundedHundred ==
  JustUpdated /\ ActiveOf(CourseOf(res)) # {} =>
    LET n == Cardinality(ActiveOf(CourseOf(res)))
        lacking == 100 * n - SumPercent(res.userId, ActiveOf(CourseOf(res)))
    IN /\ CourseKey(res) \in DOMAIN courseProgress
       /\ AtHundred(res) <=> 2 * lacking <= n
       /\ AtHundred(res) => IsSet(courseProgress[CourseKey(res)].completedAt)

\* an update has just left the course row at 100 with one of the two active
\* lessons at 99
C28_Witness ==
  /\ JustUpdated /\ AtHundred(res)
  /\ Cardinality(ActiveOf(CourseOf(res))) = 2
  /\ \E l \in ActiveOf(CourseOf(res)) :
       /\ <<res.userId, l>> \in DOMAIN lessonProgress
       /\ lessonProgress[<<res.userId, l>>].progressPercent = 99

(* ---------------------------------------------------------------------- *)
\* C29 (as stated): getUserAchievements lists perfect_progress only if the user
\* has started a course and every course row of the user reads 100, that is,
\* only if completedCourses = startedCourses > 0
C29_PerfectOnlyWhenAllHundred ==
  res.op = "getUserAchievements" /\ Listed("perfect_progress", res.body) =>
    LET rows == {k \in DOMAIN courseProgress : k[1] = res.userId} IN
    /\ rows # {}
    /\ \A k \in rows : courseProgress[k].progressPercent = 100

(* ---------------------------------------------------------------------- *)
\* C30 (as stated): the statistics getUserStats returns never report more
\* completed lessons than lessons, more completed assignments than
\* assignments, or more started courses than courses
C30_DoneWithinTotal ==
  res.op = "getUserStats" =>
    /\ res.body.completedLessons <= res.body.totalLessons
    /\ res.body.completedAssignments <= res.body.totalAssignments
    /\ res.body.startedCourses <= res.body.totalCourses

============================================================================
